---- MODULE Spec2Model ----
(***************************************************************************)
(* Model of the two broadcast engines of common::net (src/common/src/net/  *)
(* mod.rs): HeartbeatSender and AckResponder, both hand-written Futures    *)
(* driven by a tokio Interval.  Time is discrete (seconds); one call of    *)
(* poll() is one atomic action taken at the current instant `now`.         *)
(***************************************************************************)
EXTENDS Integers, Sequences, FiniteSets, TLC

(* ---------------------------------------------------------------------- *)
(* Bounds of the model                                                     *)
(* ---------------------------------------------------------------------- *)
\* last instant (seconds after the engines were built) the model explores
MaxTime == 5
\* largest number of configured gateways (node_addrs / nodes)
MaxGateways == 2
\* largest number of update_execution_id calls
MaxUpdates == 2
\* largest buf_size of the ack channel
MaxBuf == 2
\* largest number of Ack submissions attempted through the handle
MaxSubmit == 3

\* period / delay values (seconds) the builders are configured with;
\* tokio::time::interval panics on a zero period
Periods == {2, 3}
\* execution ids handed to update_execution_id
ExecIds == {1, 2}
\* what one poll of a gateway call's future yields: "ready" is Poll::Ready(_)
\* with any result (is_ready() does not tell Ok from Err), "pending" is
\* Poll::Pending
Outcomes == {"ready", "pending"}

VARIABLES
    now,                  \* the clock: seconds since the engines were built
    \* ---- HeartbeatSender (fields of the struct)
    gateways,             \* number of gateways in HeartbeatSender.gateways
    interval,             \* HeartbeatSender.interval
    execution_id,         \* Option<ExecutionId>: <<>> is None, <<e>> is Some(e)
    current_heartbeat_id, \* AtomicU64
    \* ---- what the heartbeat gateways and the owner have observed
    hbLog,                \* one record per tick, with its receive_heartbeat calls
    hbFirstPoll,          \* instant of the first poll of the sender, -1 before it
    updLog,               \* the update_execution_id calls made so far
    hbReturned,           \* what the latest poll of the sender returned
    \* ---- AckResponder (fields of the struct) and its submission handle
    gateway,              \* number of gateways in AckResponder.gateway
    delay_interval,       \* AckResponder.delay_interval
    recv,                 \* the mpsc channel shared by AckResponder.recv and the Sender
    \* ---- what the ack gateways and the submitters have observed
    ackLog,               \* one record per tick of the responder
    ackFirstPoll,         \* instant of the first poll of the responder, -1 before it
    ackReturned,          \* what the latest poll of the responder returned
    submitted,            \* number of submissions attempted so far
    lastSend              \* what the latest submission returned to its caller

hbVars == <<gateways, interval, execution_id, current_heartbeat_id,
            hbLog, hbFirstPoll, updLog, hbReturned>>
ackVars == <<gateway, delay_interval, recv, ackLog, ackFirstPoll, ackReturned,
             submitted, lastSend>>
vars == <<now, hbVars, ackVars>>

(* ---------------------------------------------------------------------- *)
(* tokio::time::Interval, as the engines use it                            *)
(* ---------------------------------------------------------------------- *)
\* an interval whose first tick waits one period (tokio's interval_at(now + period))
NewIntervalDelayed(period, t) == [deadline |-> t + period, period |-> period]

\* tokio::time::interval(period): the first tick completes immediately, that
\* is, the first deadline is the instant of creation
NewInterval(period, t) == [deadline |-> t, period |-> period]

\* a timer that fires one second before its deadline
PollTickReadyEarly(iv, t) == t + 1 >= iv.deadline

\* Interval::poll_tick: Ready(deadline) once the deadline is reached
PollTickReady(iv, t) == t >= iv.deadline

\* the next deadline one period after the current instant
\* (MissedTickBehavior::Delay)
PollTickNextDelay(iv, t) == [iv EXCEPT !.deadline = t + iv.period]

\* Interval::poll_tick, the deadline it arms when it returns Ready: one period
\* after the deadline that fired, whatever the current instant t (the default
\* MissedTickBehavior::Burst)
PollTickNext(iv, t) == [iv EXCEPT !.deadline = iv.deadline + iv.period]

\* an interval that is not reset
ResetIntervalSkipped(iv, t) == iv

\* Interval::reset: the next tick completes one period after the current instant
ResetInterval(iv, t) == [iv EXCEPT !.deadline = t + iv.period]

IsReady(o) == o = "ready"

(* ---------------------------------------------------------------------- *)
(* HeartbeatSender                                                         *)
(* ---------------------------------------------------------------------- *)
\* a Heartbeat whose id is read once per tick, before the fan-out: the same
\* for every gateway
HeartbeatForTick(c, g, t, exec) ==
    [heartbeat_id |-> c, timestamp |-> t, execution_id |-> exec]

\* the Heartbeat built for gateway g when the counter holds c at the start
\* of the tick: the id is taken by fetch_add(1) inside the closure mapped
\* over the gateways, so the g-th call finds the counter at c + (g - 1).
\* (The AtomicU64 wraps at 2^64, far beyond the ids reached here; node_type
\* is the constant NodeType::JobManager and is left out.)
HeartbeatFor(c, g, t, exec) ==
    [heartbeat_id |-> c + (g - 1), timestamp |-> t, execution_id |-> exec]

\* the fan-out of one tick: for every gateway, in list order, build the
\* call (receive_heartbeat) and poll it once; the future is then dropped
FanOutHeartbeat(k, c, t, exec) ==
    [g \in 1..k |-> [gw |-> g, msg |-> HeartbeatFor(c, g, t, exec)]]

\* a fan-out that stops at the first call that is pending (a lazy a && b
\* over the gateways): the gateways after it are not called
ConsumedUntilPending(calls, outs) ==
    LET stop == {g \in 1..Len(outs) : ~IsReady(outs[g])} IN
    IF stop = {} THEN SubSeq(calls, 1, Len(outs))
    ELSE SubSeq(calls, 1, CHOOSE g \in stop : \A h \in stop : g <= h)

\* the calls a fan-out makes, given the outcome of the single poll of each:
\* Iterator::reduce drains the iterator, and both operands of a && b are
\* values already computed, so every gateway of the list goes through both
\* map closures (call, then poll) whatever the polls before it returned
Consumed(calls, outs) == SubSeq(calls, 1, Len(outs))

\* a fan-out that holds on to the calls that were pending, to poll them
\* again on a later pass (a join)
KeptWhilePending(calls, outs) ==
    LET pend == {g \in 1..Len(outs) : ~IsReady(outs[g])} IN
    [g \in pend |-> calls[g]]

\* the calls that outlive the pass that made them: none, the future is a
\* temporary of the map closure and is dropped right after its single poll
Kept(calls, outs) == [g \in {} |-> calls[g]]

\* .map(|f| f.poll_unpin(cx).is_ready()).reduce(|a, b| a && b) over the
\* outcomes of the calls, in list order: <<>> is None, <<b>> is Some(b)
ReduceReady(outs) ==
    IF Len(outs) = 0 THEN <<>>
    ELSE <<\A g \in 1..Len(outs) : IsReady(outs[g])>>

\* number of iterations the loop of HeartbeatSender::poll runs at instant
\* t: one per deadline already reached
RECURSIVE HbTicksDue(_, _)
HbTicksDue(iv, t) ==
    IF PollTickReady(iv, t) THEN 1 + HbTicksDue(PollTickNext(iv, t), t) ELSE 0

\* the interval after i iterations of the loop, each a poll_tick that
\* returned Ready
RECURSIVE IntervalAfter(_, _, _)
IntervalAfter(iv, t, i) ==
    IF i = 0 THEN iv ELSE PollTickNext(IntervalAfter(iv, t, i - 1), t)

\* the tick records added by a loop of m iterations at instant t, from the
\* interval iv and the counter c; iteration i takes the outcomes outs[i] of
\* its calls and finds the counter advanced by the k calls of each earlier one
HbLoop(iv, c, k, t, exec, outs, m) ==
    [i \in 1..m |->
        [sched |-> IntervalAfter(iv, t, i - 1).deadline,
         at |-> t,
         calls |-> Consumed(FanOutHeartbeat(k, c + (i - 1) * k, t, exec),
                            outs[i]),
         kept |-> Kept(FanOutHeartbeat(k, c + (i - 1) * k, t, exec), outs[i]),
         joined |-> ReduceReady(outs[i])]]

\* a poll that ends the task once a fan-out has joined (the break taken as
\* leaving the outer loop)
HbPollReturnOnJoin(ticks) ==
    IF \E i \in 1..Len(ticks) : ticks[i].joined = <<TRUE>>
    THEN "ready" ELSE "pending"

\* what HeartbeatSender::poll returns after the iterations ticks: the loop
\* has no exit but ready!(poll_tick), which returns Poll::Pending; the break
\* leaves the while-let only
HbPollReturn(ticks) == "pending"

\* HeartbeatSender::poll, the whole call: loop { ready!(poll_tick); fan out }
\* until poll_tick is pending.  A task whose poll returned Ready is finished
\* and is not polled again
HeartbeatPoll ==
    LET m == HbTicksDue(interval, now) IN
    \E outs \in [1..m -> [1..gateways -> Outcomes]] :
        /\ hbReturned # "ready"
        /\ hbReturned' = HbPollReturn(HbLoop(interval, current_heartbeat_id,
                                   gateways, now, execution_id, outs, m))
        /\ hbLog' = hbLog \o HbLoop(interval, current_heartbeat_id, gateways,
                                    now, execution_id, outs, m)
        /\ interval' = IntervalAfter(interval, now, m)
        /\ current_heartbeat_id' = current_heartbeat_id + m * gateways
        /\ hbFirstPoll' = IF hbFirstPoll < 0 THEN now ELSE hbFirstPoll
        /\ UNCHANGED <<now, gateways, execution_id, updLog, ackVars>>

\* an update that keeps an id that is already set (Option::get_or_insert)
SetExecutionIdOnce(e) == IF execution_id = <<>> THEN <<e>> ELSE execution_id

\* HeartbeatSender::update_execution_id
SetExecutionId(e) == <<e>>

UpdateExecutionId ==
    /\ Len(updLog) < MaxUpdates
    /\ \E e \in ExecIds :
        /\ execution_id' = SetExecutionId(e)
        /\ updLog' = Append(updLog, [after |-> Len(hbLog), id |-> e])
    /\ UNCHANGED <<now, gateways, interval, current_heartbeat_id, hbLog,
                   hbFirstPoll, hbReturned, ackVars>>

(* ---------------------------------------------------------------------- *)
(* The bounded mpsc channel of Ack messages                                *)
(* ---------------------------------------------------------------------- *)
\* mpsc::channel(buf_size): buf holds the queued messages, waiters the
\* messages of the suspended send().await calls, granted the messages of
\* the suspended calls that a freed slot has been handed to; closed once
\* every Sender has been dropped
NewChannel(cap) ==
    [buf |-> <<>>, cap |-> cap, waiters |-> <<>>, granted |-> <<>>, closed |-> FALSE]

\* a channel that hands out a permit whatever it holds (an unbounded channel)
HasPermitAlways(ch) == TRUE

\* a permit is free: a slot that is neither filled nor handed to a waiter
HasPermit(ch) == Len(ch.buf) + Len(ch.granted) < ch.cap

\* Receiver::poll_recv, what it returns: Ready(Some(m)), Ready(None) once the
\* channel is closed and drained, Pending otherwise
PollRecvResult(ch) ==
    IF ch.buf # <<>> THEN "some"
    ELSE IF ch.closed THEN "none" ELSE "pending"

\* a receiver that takes the newest message (a stack instead of a queue)
PollRecvMsgNewest(ch) == ch.buf[Len(ch.buf)]

\* Receiver::poll_recv, the message of Ready(Some(m)): the oldest one queued
PollRecvMsg(ch) == Head(ch.buf)

\* a receiver that reads the head and leaves it queued (a peek)
PollRecvPeek(ch) == ch

\* a receiver that drains the whole queue in one go
PollRecvTakeAll(ch) == [ch EXCEPT !.buf = <<>>]

\* Receiver::poll_recv, what it leaves: the head is removed and its slot is
\* handed to the longest-suspended sender, if there is one
PollRecvTake(ch) ==
    IF ch.buf = <<>> THEN ch
    ELSE IF ch.waiters = <<>> THEN [ch EXCEPT !.buf = Tail(@)]
    ELSE [ch EXCEPT !.buf = Tail(@),
                    !.granted = Append(@, Head(ch.waiters)),
                    !.waiters = Tail(@)]

\* the Ack of the next submission: id numbers the submissions, early tells
\* whether it is made before the first poll of the responder
NextAck == [id |-> submitted + 1, early |-> ackFirstPoll < 0]

\* the number of Acks the channel has accepted so far: those the responder
\* has dequeued and those still queued
Accepted == Cardinality({n \in 1..Len(ackLog) : ackLog[n].msg # <<>>}) + Len(recv.buf)

\* the channel with the Ack a pushed at the tail of the queue; seq numbers
\* the Acks in the order the channel accepts them
Push(ch, a) ==
    [ch EXCEPT !.buf = Append(@, [id |-> a.id, early |-> a.early,
                                  seq |-> Accepted + 1])]

\* x without its i-th element
RemoveAt(x, i) == SubSeq(x, 1, i - 1) \o SubSeq(x, i + 1, Len(x))

\* Sender::try_send: Err(TrySendError::Full) at once when no permit is free
TrySend ==
    /\ submitted < MaxSubmit
    /\ ~recv.closed
    /\ submitted' = submitted + 1
    /\ IF HasPermit(recv)
       THEN /\ recv' = Push(recv, NextAck)
            /\ lastSend' = [id |-> NextAck.id, op |-> "try_send", result |-> "ok"]
       ELSE /\ recv' = recv
            /\ lastSend' = [id |-> NextAck.id, op |-> "try_send", result |-> "full"]
    /\ UNCHANGED <<now, hbVars, gateway, delay_interval, ackLog, ackFirstPoll,
                   ackReturned>>

\* Sender::send(ack).await, its first poll: Ok(()) when a permit is free,
\* otherwise the caller is suspended until a slot is handed to it
SendAwait ==
    /\ submitted < MaxSubmit
    /\ ~recv.closed
    /\ submitted' = submitted + 1
    /\ IF HasPermit(recv)
       THEN /\ recv' = Push(recv, NextAck)
            /\ lastSend' = [id |-> NextAck.id, op |-> "send", result |-> "ok"]
       ELSE /\ recv' = [recv EXCEPT !.waiters = Append(@, NextAck)]
            /\ lastSend' = [id |-> NextAck.id, op |-> "send", result |-> "suspended"]
    /\ UNCHANGED <<now, hbVars, gateway, delay_interval, ackLog, ackFirstPoll,
                   ackReturned>>

\* Sender::send(ack).await, resumed with the slot it was handed: Ok(()).
\* The suspended senders are separate tasks: those that hold a slot resume
\* in any order
SendResume ==
    /\ \E i \in 1..Len(recv.granted) :
        /\ recv' = Push([recv EXCEPT !.granted = RemoveAt(@, i)], recv.granted[i])
        /\ lastSend' = [id |-> recv.granted[i].id, op |-> "send", result |-> "ok"]
    /\ UNCHANGED <<now, hbVars, gateway, delay_interval, ackLog, ackFirstPoll,
                   ackReturned, submitted>>

\* the last Sender is dropped (no send is suspended on it)
DropSender ==
    /\ ~recv.closed
    /\ recv.waiters = <<>> /\ recv.granted = <<>>
    /\ recv' = [recv EXCEPT !.closed = TRUE]
    /\ UNCHANGED <<now, hbVars, gateway, delay_interval, ackLog, ackFirstPoll,
                   ackReturned, submitted, lastSend>>

(* ---------------------------------------------------------------------- *)
(* AckResponder                                                            *)
(* ---------------------------------------------------------------------- *)
\* the fan-out of one dequeued Ack: receive_ack(ack.clone()) on every
\* gateway, in list order, each call polled once and then dropped
FanOutAck(k, ack) == [g \in 1..k |-> [gw |-> g, msg |-> ack]]

\* a poll that ends the task once the channel is closed and drained
AckPollReturnOnClosed(got) == IF got = "none" THEN "ready" ELSE "pending"

\* what AckResponder::poll returns after a tick whose poll_recv gave got
\* ("some", "none" or "pending"; "idle" when no tick was due): the match has
\* no arm that returns, and the loop no exit but ready!(poll_tick), which
\* returns Poll::Pending
AckPollReturn(got) == "pending"

\* AckResponder::poll, the whole call.  After a tick the interval is reset
\* to one (non-zero) delay after the current instant, so the loop runs one
\* iteration and the second poll_tick is pending: the call returns
\* Poll::Pending.  A task whose poll returned Ready is finished and is not
\* polled again
AckPoll ==
    /\ ackReturned # "ready"
    /\ ackReturned' = AckPollReturn(IF PollTickReady(delay_interval, now)
                                    THEN PollRecvResult(recv) ELSE "idle")
    /\ ackFirstPoll' = IF ackFirstPoll < 0 THEN now ELSE ackFirstPoll
    /\ IF PollTickReady(delay_interval, now)
       THEN LET got == PollRecvResult(recv)
                k == IF got = "some" THEN gateway ELSE 0
            IN  \E outs \in [1..k -> Outcomes] :
                    /\ delay_interval' =
                           ResetInterval(PollTickNext(delay_interval, now), now)
                    /\ recv' = PollRecvTake(recv)
                    /\ ackLog' = Append(ackLog,
                           [sched |-> delay_interval.deadline,
                            at |-> now,
                            polled |-> got,
                            msg |-> IF got = "some" THEN <<PollRecvMsg(recv)>> ELSE <<>>,
                            calls |-> IF got = "some"
                                      THEN Consumed(FanOutAck(gateway,
                                               PollRecvMsg(recv)), outs)
                                      ELSE <<>>,
                            kept |-> IF got = "some"
                                     THEN Kept(FanOutAck(gateway,
                                              PollRecvMsg(recv)), outs)
                                     ELSE <<>>,
                            joined |-> ReduceReady(outs)])
       ELSE UNCHANGED <<delay_interval, recv, ackLog>>
    /\ UNCHANGED <<now, hbVars, gateway, submitted, lastSend>>

\* AckResponderBuilder::build at instant 0
InitAckResponder ==
    /\ gateway \in 0..MaxGateways
    /\ \E d \in Periods : delay_interval = NewInterval(d, 0)
    /\ \E cap \in 1..MaxBuf : recv = NewChannel(cap)
    /\ ackLog = <<>>
    /\ ackFirstPoll = -1
    /\ ackReturned = "none"
    /\ submitted = 0
    /\ lastSend = [id |-> 0, op |-> "none", result |-> "none"]

\* one second passes
Advance ==
    /\ now < MaxTime
    /\ now' = now + 1
    /\ UNCHANGED <<hbVars, ackVars>>

\* HeartbeatBuilder::build at instant 0
InitHeartbeat ==
    /\ gateways \in 0..MaxGateways
    /\ \E p \in Periods : interval = NewInterval(p, 0)
    /\ execution_id = <<>>
    /\ current_heartbeat_id = 0
    /\ hbLog = <<>>
    /\ hbFirstPoll = -1
    /\ updLog = <<>>
    /\ hbReturned = "none"

\* the specification of one engine leaves the other engine as it was built
NoAck ==
    /\ gateway = 0
    /\ delay_interval = NewInterval(1, 0)
    /\ recv = NewChannel(1)
    /\ ackLog = <<>>
    /\ ackFirstPoll = -1
    /\ ackReturned = "none"
    /\ submitted = 0
    /\ lastSend = [id |-> 0, op |-> "none", result |-> "none"]

NoHeartbeat ==
    /\ gateways = 0
    /\ interval = NewInterval(1, 0)
    /\ execution_id = <<>>
    /\ current_heartbeat_id = 0
    /\ hbLog = <<>>
    /\ hbFirstPoll = -1
    /\ updLog = <<>>
    /\ hbReturned = "none"

InitHb == now = 0 /\ InitHeartbeat /\ NoAck

NextHb == HeartbeatPoll \/ UpdateExecutionId \/ Advance

SpecHb == InitHb /\ [][NextHb]_vars

InitAck == now = 0 /\ InitAckResponder /\ NoHeartbeat

NextAckResponder ==
    AckPoll \/ TrySend \/ SendAwait \/ SendResume \/ DropSender \/ Advance

SpecAck == InitAck /\ [][NextAckResponder]_vars

\* a process that builds and runs one of the two engines, either one
HeartbeatBuilt == interval.period \in Periods
AckResponderBuilt == delay_interval.period \in Periods

InitEngine == InitHb \/ InitAck

NextEngine ==
    \/ HeartbeatBuilt /\ NextHb
    \/ AckResponderBuilt /\ NextAckResponder

SpecEngine == InitEngine /\ [][NextEngine]_vars

(* ---------------------------------------------------------------------- *)
(* Properties of the HeartbeatSender                                       *)
(* ---------------------------------------------------------------------- *)
\* the ticks are numbered from 0: tick n is hbLog[n + 1]
HbTickNumbers == 0..(Len(hbLog) - 1)
HbTick(n) == hbLog[n + 1]
HbCallsOf(n) == {HbTick(n).calls[g] : g \in 1..Len(HbTick(n).calls)}

\* C1: with K >= 1 gateways, every heartbeat of the n-th tick (n = 0, 1, ...)
\* carries heartbeat_id = n, so N ticks emit the ids 0, 1, ..., N-1.
C1_IdIsTickNumber ==
    \A n \in HbTickNumbers :
        \A c \in HbCallsOf(n) : c.msg.heartbeat_id = n

\* C2: within one tick all K receive_heartbeat invocations carry the same
\* Heartbeat: the same heartbeat_id and the same timestamp.
C2_OneMessagePerTick ==
    \A n \in HbTickNumbers :
        \A c, d \in HbCallsOf(n) :
            /\ c.msg.heartbeat_id = d.msg.heartbeat_id
            /\ c.msg.timestamp = d.msg.timestamp

\* C3: tick n+1 makes no invocation before every call started in tick n has
\* completed: a tick that is followed by another one left no call pending.
C3_NextTickWaitsForJoin ==
    \A n \in HbTickNumbers :
        (n + 1 \in HbTickNumbers /\ HbTick(n + 1).calls # <<>>)
            => HbTick(n).joined # <<FALSE>>

\* C5, as the specification states it: the first tick fires no earlier than
\* one period after the start and the later ones one period apart, so that
\* tick n fires no earlier than (n+1) periods after the start and at most
\* floor(T / period) ticks have happened by the instant T.
C5_FirstTickAfterOnePeriod ==
    /\ \A n \in HbTickNumbers : HbTick(n).at >= (n + 1) * interval.period
    /\ Len(hbLog) <= now \div interval.period

\* C5, amended: the first tick fires on the first poll without waiting;
\* tick n fires no earlier than n periods after the sender was built, so at
\* most floor(T / period) + 1 ticks have happened by the instant T, and exactly
\* that many whenever the sender has been polled and its timer is not yet due.
C5_TickCount ==
    /\ \A n \in HbTickNumbers : HbTick(n).at >= n * interval.period
    /\ Len(hbLog) <= (now \div interval.period) + 1
    /\ (hbFirstPoll >= 0 /\ ~PollTickReady(interval, now))
           => Len(hbLog) = (now \div interval.period) + 1

\* period 3 and one gateway: two ticks have happened five seconds after the
\* start (at 0 and 3), polled on time, where floor(5 / 3) is 1
C5_Witness ==
    /\ interval.period = 3 /\ gateways = 1
    /\ now = 5 /\ Len(hbLog) = 2
    /\ \A n \in HbTickNumbers : HbTick(n).at = 3 * n

UpdatesBefore(n) == {i \in 1..Len(updLog) : updLog[i].after <= n}
ExecInForce(n) ==
    IF UpdatesBefore(n) = {} THEN <<>>
    ELSE <<updLog[CHOOSE i \in UpdatesBefore(n) :
                     \A j \in UpdatesBefore(n) : j <= i].id>>

\* C7: an update_execution_id(e) made between tick M and tick M+1 is carried
\* by every heartbeat of tick M+1 and of the later ticks (until the next
\* update); tick M and the earlier ticks carry the value in force before it.
C7_ExecutionIdFromLatestUpdate ==
    \A n \in HbTickNumbers :
        \A c \in HbCallsOf(n) : c.msg.execution_id = ExecInForce(n)

\* two updates with different ids, each followed by a tick that carries it,
\* after a first tick that carries none
C7_Witness ==
    /\ gateways >= 1
    /\ Len(updLog) = 2 /\ updLog[1].id # updLog[2].id
    /\ Len(hbLog) >= 3
    /\ updLog[1].after = 1 /\ updLog[2].after = 2
    /\ HbTick(0).calls[1].msg.execution_id = <<>>
    /\ HbTick(1).calls[1].msg.execution_id = <<updLog[1].id>>
    /\ HbTick(2).calls[1].msg.execution_id = <<updLog[2].id>>

(* ---------------------------------------------------------------------- *)
(* Properties of the AckResponder and of its submission handle             *)
(* ---------------------------------------------------------------------- *)
\* the ticks of the responder are numbered from 0: tick n is ackLog[n + 1]
AckTickNumbers == 0..(Len(ackLog) - 1)
AckTick(n) == ackLog[n + 1]
\* the ticks that dequeued an Ack and broadcast it
AckBroadcasts == {n \in AckTickNumbers : AckTick(n).msg # <<>>}

\* a step that is a submission through the handle
IsSubmission == submitted' = submitted + 1
\* the submitted Ack, as a suspended sender holds it and as the queue stores it
SubmittedAck == [id |-> submitted + 1, early |-> ackFirstPoll < 0]
QueuedAck ==
    [id |-> submitted + 1, early |-> ackFirstPoll < 0,
     seq |-> Cardinality(AckBroadcasts) + Len(recv.buf) + 1]
ResponderUnchanged ==
    UNCHANGED <<gateway, delay_interval, ackLog, ackFirstPoll, ackReturned>>

\* C4: the queue never holds more than buf_size messages; a submission made
\* while the queue holds buf_size messages fails at once with an explicit
\* failure and leaves the queue and the responder unchanged; a submission
\* made once the engine has dequeued a message succeeds.
C4_FullSubmissionFailsAtOnce ==
    [][/\ Len(recv'.buf) <= recv'.cap
       /\ (IsSubmission /\ Len(recv.buf) = recv.cap)
              => (/\ lastSend'.result = "full"
                  /\ recv'.buf = recv.buf
                  /\ ResponderUnchanged)
       /\ (IsSubmission /\ Len(recv.buf) < recv.cap /\ Len(ackLog) > 0)
              => lastSend'.result = "ok"]_vars

\* C4, amended: the queue never holds more than buf_size messages.  While no
\* slot is free (every slot is filled or handed to a suspended sender) a
\* try_send fails at once with Full and changes nothing, and a send().await
\* does not fail: it suspends its caller, queue and responder unchanged,
\* until a dequeue hands it a slot.  A submission made while a slot is free
\* succeeds and appends its Ack to the queue.
C4_Backpressure ==
    [][/\ Len(recv'.buf) <= recv'.cap
       /\ (IsSubmission /\ Len(recv.buf) + Len(recv.granted) >= recv.cap)
              => (/\ recv'.buf = recv.buf
                  /\ ResponderUnchanged
                  /\ lastSend'.op = "try_send"
                         => (lastSend'.result = "full" /\ recv' = recv)
                  /\ lastSend'.op = "send"
                         => (/\ lastSend'.result = "suspended"
                             /\ recv'.waiters = Append(recv.waiters, SubmittedAck)))
       /\ (IsSubmission /\ Len(recv.buf) + Len(recv.granted) < recv.cap)
              => (/\ lastSend'.result = "ok"
                  /\ recv'.buf = Append(recv.buf, QueuedAck))]_vars

\* buf_size 1: submission 1 was accepted and has been dequeued, submission 2
\* was refused (it is nowhere), and submission 3, a try_send made after the
\* dequeue, has just been accepted
C4_Witness ==
    /\ recv.cap = 1 /\ submitted = 3
    /\ lastSend = [id |-> 3, op |-> "try_send", result |-> "ok"]
    /\ Len(recv.buf) = 1 /\ recv.buf[1].id = 3
    /\ recv.waiters = <<>> /\ recv.granted = <<>>
    /\ AckBroadcasts # {}
    /\ \A n \in AckBroadcasts : AckTick(n).msg[1].id = 1

\* C8, as the specification states it: an Ack enqueued once the responder
\* has started (it was built and spawned at instant 0) reaches the gateways
\* no earlier than one delay after the start.
C8_NoBroadcastBeforeOneDelay ==
    \A n \in AckBroadcasts : AckTick(n).at >= delay_interval.period

\* C8, amended: an Ack enqueued after the first poll of the responder is
\* broadcast no earlier than one delay after that first poll (an Ack enqueued
\* before the first poll can be broadcast on it, without any delay).
C8_DelayAfterFirstPoll ==
    \A n \in AckBroadcasts :
        ~AckTick(n).msg[1].early
            => AckTick(n).at >= ackFirstPoll + delay_interval.period

\* an Ack enqueued after the first poll, broadcast to a gateway exactly one
\* delay after that poll
C8_Witness ==
    \E n \in AckBroadcasts :
        /\ ~AckTick(n).msg[1].early
        /\ Len(AckTick(n).calls) >= 1
        /\ AckTick(n).at = ackFirstPoll + delay_interval.period

\* C9: two consecutive broadcasts of one responder are at least one delay
\* apart: each tick resets the timer to one delay after the instant of the
\* tick, so an Ack enqueued right after a broadcast waits a full delay.
C9_BroadcastsOneDelayApart ==
    /\ \A m, n \in AckBroadcasts :
           m < n => AckTick(n).at >= AckTick(m).at + delay_interval.period
    /\ Len(ackLog) > 0 =>
           delay_interval.deadline =
               AckTick(Len(ackLog) - 1).at + delay_interval.period

\* a first broadcast made late (after its scheduled instant), then a second
\* broadcast exactly one delay after the first
C9_Witness ==
    \E m, n \in AckBroadcasts :
        /\ n = m + 1
        /\ gateway >= 1
        /\ AckTick(m).at > AckTick(m).sched
        /\ AckTick(n).at = AckTick(m).at + delay_interval.period

RECURSIVE BroadcastSeq(_)
BroadcastSeq(n) ==
    IF n = 0 THEN <<>>
    ELSE BroadcastSeq(n - 1) \o
         (IF ackLog[n].msg # <<>> THEN <<ackLog[n].msg[1]>> ELSE <<>>)

\* C11: the Acks are handed to the gateways in the order in which the handle
\* accepted them: the i-th broadcast carries the i-th accepted Ack, on every
\* gateway, and the Acks still queued are the later ones, oldest first.
C11_BroadcastInAcceptanceOrder ==
    LET done == BroadcastSeq(Len(ackLog)) IN
    /\ \A i \in 1..Len(done) : done[i].seq = i
    /\ \A i \in 1..Len(recv.buf) : recv.buf[i].seq = Len(done) + i
    /\ \A n \in AckBroadcasts :
           \A g \in 1..Len(AckTick(n).calls) :
               AckTick(n).calls[g].msg = AckTick(n).msg[1]

\* two Acks queued together (the second accepted while the first was still
\* waiting) have both been broadcast to a gateway, the first one first
C11_Witness ==
    LET done == BroadcastSeq(Len(ackLog)) IN
    /\ gateway >= 1 /\ recv.cap >= 2
    /\ Len(done) = 2
    /\ done[1].early /\ done[2].early
    /\ done[1].seq = 1 /\ done[2].seq = 2

(* ---------------------------------------------------------------------- *)
(* Properties of both engines                                              *)
(* ---------------------------------------------------------------------- *)
\* C12: no result of a gateway call ends an engine or changes what it does
\* next: poll never returns Ready, and the state a tick leaves (the timer,
\* the counter, the execution id, the gateways, the queue) and the number of
\* ticks a poll runs are fixed by the state before the poll alone, whichever
\* of the calls were ready or pending.
C12_OutcomesChangeNothing ==
    [][/\ hbReturned' # "ready"
       /\ ackReturned' # "ready"
       /\ hbLog' # hbLog =>
              LET m == ((now - interval.deadline) \div interval.period) + 1 IN
              /\ Len(hbLog') = Len(hbLog) + m
              /\ interval' = [interval EXCEPT !.deadline = @ + m * interval.period]
              /\ current_heartbeat_id' = current_heartbeat_id + m * gateways
              /\ execution_id' = execution_id
              /\ gateways' = gateways
       /\ ackLog' # ackLog =>
              /\ Len(ackLog') = Len(ackLog) + 1
              /\ delay_interval' =
                     [delay_interval EXCEPT !.deadline = now + delay_interval.period]
              /\ gateway' = gateway
              /\ recv'.buf = IF recv.buf = <<>> THEN <<>> ELSE Tail(recv.buf)
              /\ recv'.closed = recv.closed]_vars

\* a tick of the sender left a call pending, the next tick came all the
\* same and joined, and the task is still suspended
C12_Witness ==
    /\ gateways >= 1 /\ Len(hbLog) >= 2
    /\ HbTick(0).joined = <<FALSE>>
    /\ HbTick(1).joined = <<TRUE>>
    /\ HbTick(1).at > HbTick(0).at
    /\ hbReturned = "pending"

\* C13: the responder does not go on to its next tick before the receive_ack
\* call on every gateway for the Ack it dequeued has completed: a broadcast
\* that is followed by another tick left no call pending.
C13_NextTickWaitsForAckJoin ==
    \A n \in AckBroadcasts :
        (n + 1) \in AckTickNumbers => AckTick(n).joined # <<FALSE>>

\* C14: every tick of the responder dequeues min(1, queue length) Acks: with
\* a queue that is not empty it takes the oldest Ack alone and leaves the
\* rest queued; with an empty queue it makes no receive_ack invocation; and
\* nothing is dequeued between two ticks, so an Ack that arrives after a tick
\* waits for the next one.
C14_OneAckPerTick ==
    [][/\ ackLog' # ackLog =>
              /\ Len(ackLog') = Len(ackLog) + 1
              /\ SubSeq(ackLog', 1, Len(ackLog)) = ackLog
              /\ LET tick == ackLog'[Len(ackLog')] IN
                 IF recv.buf # <<>>
                 THEN /\ tick.msg = <<Head(recv.buf)>>
                      /\ Len(tick.calls) = gateway
                      /\ recv'.buf = Tail(recv.buf)
                 ELSE /\ tick.msg = <<>>
                      /\ tick.calls = <<>>
                      /\ recv'.buf = <<>>
       /\ ackLog' = ackLog =>
              \/ recv'.buf = recv.buf
              \/ /\ Len(recv'.buf) = Len(recv.buf) + 1
                 /\ SubSeq(recv'.buf, 1, Len(recv.buf)) = recv.buf]_vars

\* two Acks were queued at the first tick: it took the first alone, the
\* second went out one tick later, and the third tick found the queue empty
\* and made no invocation
C14_Witness ==
    /\ gateway >= 1 /\ recv.cap >= 2
    /\ Len(ackLog) = 3
    /\ AckTick(0).msg # <<>> /\ AckTick(0).msg[1].id = 1
    /\ Len(AckTick(0).calls) = gateway
    /\ AckTick(1).msg # <<>> /\ AckTick(1).msg[1].id = 2
    /\ AckTick(1).msg[1].early
    /\ AckTick(2).msg = <<>> /\ AckTick(2).calls = <<>>

\* C15: every tick of a sender with K gateways makes exactly K
\* receive_heartbeat invocations, one on each gateway in list order, whether
\* all the calls of the tick were ready or some of them pending.
C15_EveryGatewayCalledEachTick ==
    \A n \in HbTickNumbers :
        /\ Len(HbTick(n).calls) = gateways
        /\ \A g \in 1..gateways : HbTick(n).calls[g].gw = g

\* with two gateways, a tick on which a call was pending still made both
\* invocations, and so did the tick after it
C15_Witness ==
    /\ gateways = 2 /\ Len(hbLog) >= 2
    /\ HbTick(0).joined = <<FALSE>>
    /\ Len(HbTick(0).calls) = 2 /\ Len(HbTick(1).calls) = 2
    /\ HbTick(0).calls[2].gw = 2

\* C16: an Ack the channel accepted is dequeued exactly once: it stays queued
\* until a tick takes it, no step loses it, no two ticks take the same Ack
\* and a dequeued Ack is not queued any more; and the tick that dequeues an
\* Ack invokes receive_ack with it once on each gateway, while a tick that
\* dequeues nothing invokes nothing (no re-send).
C16_DequeuedOnceBroadcastOnce ==
    /\ [](/\ \A n \in AckTickNumbers :
                IF n \in AckBroadcasts
                THEN /\ Len(AckTick(n).calls) = gateway
                     /\ \A g \in 1..gateway :
                            AckTick(n).calls[g] =
                                [gw |-> g, msg |-> AckTick(n).msg[1]]
                ELSE AckTick(n).calls = <<>>
          /\ \A n, m \in AckBroadcasts :
                n # m => AckTick(n).msg[1].id # AckTick(m).msg[1].id
          /\ \A n \in AckBroadcasts : \A i \in DOMAIN recv.buf :
                recv.buf[i].id # AckTick(n).msg[1].id
          /\ \A i, j \in DOMAIN recv.buf :
                i # j => recv.buf[i].id # recv.buf[j].id)
    /\ [][\A i \in DOMAIN recv.buf :
              \/ \E j \in DOMAIN recv'.buf : recv'.buf[j] = recv.buf[i]
              \/ \E n \in 1..Len(ackLog') : ackLog'[n].msg = <<recv.buf[i]>>]_vars

\* two Acks were accepted and each was dequeued by one tick and handed to
\* both gateways; the queue is empty again
C16_Witness ==
    /\ gateway = 2 /\ Len(ackLog) = 2 /\ recv.buf = <<>>
    /\ AckTick(0).msg # <<>> /\ AckTick(1).msg # <<>>
    /\ AckTick(0).msg[1].id = 1 /\ AckTick(1).msg[1].id = 2
    /\ Len(AckTick(0).calls) = 2 /\ Len(AckTick(1).calls) = 2

\* C17: once every handle is dropped and the queue is drained, the channel
\* stays closed and empty, and a tick of the responder does what it does on
\* an empty open queue: no receive_ack invocation, the queue untouched, poll
\* returns Pending (the task does not end) and the timer is set one delay
\* ahead, so that no further tick is due before the clock moves on.
C17_ClosedChannelIsAnEmptyQueue ==
    /\ [](\A n \in AckTickNumbers :
              AckTick(n).polled \in {"none", "pending"} =>
                  /\ AckTick(n).msg = <<>>
                  /\ AckTick(n).calls = <<>>)
    /\ [][(recv.closed /\ recv.buf = <<>>) =>
              /\ recv' = recv
              /\ ackReturned' # "ready"
              /\ ackLog' # ackLog =>
                     /\ Len(ackLog') = Len(ackLog) + 1
                     /\ ackLog'[Len(ackLog')].polled = "none"
                     /\ ackLog'[Len(ackLog')].calls = <<>>
                     /\ ackReturned' = "pending"
                     /\ delay_interval'.deadline = now + delay_interval.period
                     /\ ~PollTickReady(delay_interval', now)]_vars

\* the handle was dropped after one Ack; the responder broadcast that Ack,
\* then ticked twice on the closed channel, one delay apart, and is still
\* suspended
C17_Witness ==
    /\ recv.closed /\ recv.buf = <<>> /\ gateway >= 1
    /\ Len(ackLog) = 3
    /\ AckTick(0).polled = "some"
    /\ AckTick(1).polled = "none" /\ AckTick(2).polled = "none"
    /\ AckTick(2).at = AckTick(1).at + delay_interval.period
    /\ ackReturned = "pending"

\* the number of receive_heartbeat invocations made by the first n ticks
RECURSIVE HbInvocations(_)
HbInvocations(n) ==
    IF n = 0 THEN 0 ELSE HbInvocations(n - 1) + Len(HbTick(n - 1).calls)

\* C18: the sequence counter equals the number of receive_heartbeat
\* invocations made so far; the call of tick n (n = 0, 1, ...) on the g-th
\* gateway of K carries the id n*K + g - 1, the value the counter held when
\* the call was made; and no two invocations carry the same id.
C18_CounterCountsInvocations ==
    /\ current_heartbeat_id = HbInvocations(Len(hbLog))
    /\ \A n \in HbTickNumbers : \A g \in 1..Len(HbTick(n).calls) :
           /\ HbTick(n).calls[g].msg.heartbeat_id = n * gateways + (g - 1)
           /\ HbTick(n).calls[g].msg.heartbeat_id = HbInvocations(n) + (g - 1)
    /\ \A n, m \in HbTickNumbers :
           \A g \in 1..Len(HbTick(n).calls), h \in 1..Len(HbTick(m).calls) :
               <<n, g>> # <<m, h>> =>
                   HbTick(n).calls[g].msg.heartbeat_id #
                       HbTick(m).calls[h].msg.heartbeat_id

\* two ticks of a sender with two gateways used the ids 0, 1 and 2, 3 and
\* left the counter at 4
C18_Witness ==
    /\ gateways = 2 /\ Len(hbLog) = 2
    /\ HbTick(0).calls[1].msg.heartbeat_id = 0
    /\ HbTick(0).calls[2].msg.heartbeat_id = 1
    /\ HbTick(1).calls[1].msg.heartbeat_id = 2
    /\ HbTick(1).calls[2].msg.heartbeat_id = 3
    /\ current_heartbeat_id = 4

\* C19: a gateway call lives for one poll pass: every call a tick creates is
\* polled in that tick and none is kept after it, by either engine; a tick
\* whose call was pending is never completed later (its record, with the
\* failed join, stays as the tick left it), so an engine suspended on its
\* timer holds no call.
C19_NoCallOutlivesItsTick ==
    /\ [](/\ \A n \in HbTickNumbers :
                /\ HbTick(n).kept = <<>>
                /\ Len(HbTick(n).joined) = IF HbTick(n).calls = <<>> THEN 0 ELSE 1
          /\ \A n \in AckTickNumbers :
                /\ AckTick(n).kept = <<>>
                /\ Len(AckTick(n).joined) = IF AckTick(n).calls = <<>> THEN 0 ELSE 1)
    /\ [][/\ SubSeq(hbLog', 1, Len(hbLog)) = hbLog
          /\ SubSeq(ackLog', 1, Len(ackLog)) = ackLog]_vars

\* the responder left a receive_ack call pending on one tick, kept nothing
\* of it, and went through its next tick one delay later
C19_Witness ==
    /\ AckResponderBuilt /\ gateway >= 1 /\ Len(ackLog) >= 2
    /\ AckTick(0).calls # <<>> /\ AckTick(0).joined = <<FALSE>>
    /\ AckTick(0).kept = <<>>
    /\ AckTick(1).at > AckTick(0).at
    /\ ackReturned = "pending"

====
